---- MODULE Spec2Model ----
(***************************************************************************)
(* City Award Voting API (main.py): the three JSON tables of JsonDB        *)
(* (settings, categories, votes) and the HTTP handlers that read and       *)
(* write them.  Every handler is an `async def` without an await in its    *)
(* body, so one handler runs from its first load to its last save as one   *)
(* step; each action of Spec is one whole request.  SpecStore adds the     *)
(* requests whose save raises, SpecOverlap runs the vote handlers in       *)
(* several server processes, and SpecIdentity applies get_client_ip alone. *)
(*                                                                         *)
(* Strings that the code takes apart (the proxy headers) are sequences of  *)
(* one-character strings; every other string is a TLA+ string.  The        *)
(* display-only fields (title, header, footer, names, descriptions,        *)
(* image urls) and the vote timestamp are written by the code but read by  *)
(* no handler's logic, and are left out of the records.  A table is the    *)
(* document JsonDB.load returns for its file: what json.dump wrote (lists, *)
(* dicts with string keys, strings, integers and booleans come back as     *)
(* written), or the default document when the file does not decode.        *)
(***************************************************************************)
EXTENDS Integers, Sequences, FiniteSets, TLC

VARIABLES settings, categories, votes, req

vars == <<settings, categories, votes, req>>

(* ------------------------------------------------------------------ *)
(* Bounds of the model                                                 *)
(* ------------------------------------------------------------------ *)

\* longest votes table explored (an accepted cast needs room below it)
MaxLedger == 2

\* longest proxy header value given to get_client_ip on its own
MaxHeader == 2

(* ------------------------------------------------------------------ *)
(* Configuration                                                       *)
(* ------------------------------------------------------------------ *)

SECRET_KEY == "supersecretkey"

ADMIN_PASSWORD_HASH == "8d969eef6ecad3c29a3a629280e686cf0c3f5d5a86aff3ca12020c923adc6c92"

\* Python's None, for an absent header or an absent dictionary key
None == "None"

(* ------------------------------------------------------------------ *)
(* Request inputs                                                      *)
(* ------------------------------------------------------------------ *)

CategoryIds == {"c1", "c2"}

ParticipantIds == {"p1", "p2"}

\* class Category (id, max_votes, participants): the category documents an
\* administrator posts, with a quota of one or two votes and with p2 among
\* the participants or not
Categories ==
    { [id |-> "c1", max_votes |-> 1,
       participants |-> <<[id |-> "p1"], [id |-> "p2"]>>],
      [id |-> "c1", max_votes |-> 2, participants |-> <<[id |-> "p1"]>>],
      [id |-> "c2", max_votes |-> 1, participants |-> <<[id |-> "p1"]>>] }

\* bodies of POST /api/admin/categories: lists of Category, c1 before c2,
\* whose ids are unique within the table
CategoryTables ==
    { t \in UNION { [1..n -> Categories] : n \in 0..Cardinality(CategoryIds) } :
        \A i, j \in DOMAIN t : i < j => t[i].id = "c1" /\ t[j].id = "c2" }

\* class Settings, the two fields the handlers read
SettingsBodies == [is_voting_active : BOOLEAN, anti_abuse_enabled : BOOLEAN]

\* class VoteRequest
VoteRequests == [category_id : CategoryIds, participant_id : ParticipantIds]

\* payload of POST /api/vote/reset: Dict[str, str], with or without the key
ResetPayloads ==
    { <<>> } \cup { [category_id |-> c] : c \in CategoryIds \cup {""} }

\* values of the X-Admin-Token header; None when the header is absent
Tokens == { None, SECRET_KEY, "SUPERSECRETKEY" }

\* passwords tried at POST /api/admin/login
Passwords == { "123456", "admin", "" }

\* the requests' origins explored: request.headers (any of the two proxy
\* headers, present or not) and request.client.host
Origins ==
    { [headers |-> <<>>, host |-> <<"a">>],
      [headers |-> [cf_connecting_ip |-> <<"b">>, x_forwarded_for |-> <<"a">>],
       host |-> <<"a">>],
      [headers |-> [cf_connecting_ip |-> <<>>,
                    x_forwarded_for |-> <<" ", "b", ",", " ", "a">>],
       host |-> <<"a">>] }

(* ------------------------------------------------------------------ *)
(* Helpers                                                             *)
(* ------------------------------------------------------------------ *)

\* hashlib.sha256(password.encode()).hexdigest() on the passwords tried
sha256_hexdigest(password) ==
    CASE password = "123456" ->
             "8d969eef6ecad3c29a3a629280e686cf0c3f5d5a86aff3ca12020c923adc6c92"
      [] password = "admin" ->
             "8c6976e5b5410415bde908bd4dee15dfb167a9c873fc4bb8a81f6f2ab448a918"
      [] password = "" ->
             "e3b0c44298fc1c149afbf4c8996fb92427ae41e4649b934ca495991b7852b855"

\* str.split(",")[0]
RECURSIVE split_first(_)
split_first(s) ==
    IF s = <<>> \/ Head(s) = "," THEN <<>>
    ELSE <<Head(s)>> \o split_first(Tail(s))

\* str.strip()
RECURSIVE lstrip(_)
lstrip(s) == IF s # <<>> /\ Head(s) = " " THEN lstrip(Tail(s)) ELSE s

RECURSIVE rstrip(_)
rstrip(s) ==
    IF s # <<>> /\ s[Len(s)] = " " THEN rstrip(SubSeq(s, 1, Len(s) - 1)) ELSE s

strip(s) == rstrip(lstrip(s))

\* get_client_ip reading X-Forwarded-For before CF-Connecting-IP
get_client_ip_forwarded_first(headers, host) ==
    IF "x_forwarded_for" \in DOMAIN headers /\ headers.x_forwarded_for # <<>>
    THEN strip(split_first(headers.x_forwarded_for))
    ELSE IF "cf_connecting_ip" \in DOMAIN headers /\ headers.cf_connecting_ip # <<>>
         THEN headers.cf_connecting_ip
         ELSE host

\* get_client_ip(request)
get_client_ip(headers, host) ==
    IF "cf_connecting_ip" \in DOMAIN headers /\ headers.cf_connecting_ip # <<>>
    THEN headers.cf_connecting_ip
    ELSE IF "x_forwarded_for" \in DOMAIN headers /\ headers.x_forwarded_for # <<>>
         THEN strip(split_first(headers.x_forwarded_for))
         ELSE host

\* the identities the requests explored resolve to
Identities == { get_client_ip(o.headers, o.host) : o \in Origins }

\* verify_admin letting any token through that was sent at all
verify_admin_any_token(x_admin_token) == x_admin_token # None

\* verify_admin: TRUE when the dependency lets the request through
verify_admin(x_admin_token) == ~(x_admin_token # SECRET_KEY)

\* dict[key] = value
DictSet(d, key, value) ==
    [k \in DOMAIN d \cup {key} |-> IF k = key THEN value ELSE d[k]]

\* the last request as its handler saw it when it returned, and its
\* response: the identity and the category_id once the handler has read
\* them, the admin token, the status code and the outcome, and in `body`
\* the response body (for an accepted cast and an accepted admin update,
\* the request body instead)
Response(op, ip, category_id, token, code, detail, body) ==
    [op |-> op, ip |-> ip, category_id |-> category_id, token |-> token,
     code |-> code, detail |-> detail, body |-> body]

(* ------------------------------------------------------------------ *)
(* JsonDB                                                              *)
(* ------------------------------------------------------------------ *)

\* Settings().dict()
DefaultSettings == [is_voting_active |-> FALSE, anti_abuse_enabled |-> TRUE]

\* JsonDB._init_db on an empty data directory
Init ==
    /\ settings = DefaultSettings
    /\ categories = <<>>
    /\ votes = <<>>
    /\ req = Response("boot", <<>>, "", None, 200, "", <<>>)

(* ------------------------------------------------------------------ *)
(* Public read endpoints                                               *)
(* ------------------------------------------------------------------ *)

\* GET /api/status
get_status ==
    /\ req' = Response("status", <<>>, "", None, 200, "", settings)
    /\ UNCHANGED <<settings, categories, votes>>

\* GET /api/categories
get_categories ==
    /\ req' = Response("categories", <<>>, "", None, 200, "", categories)
    /\ UNCHANGED <<settings, categories, votes>>

\* the loop of get_my_votes grouping every vote, whoever cast it
RECURSIVE my_votes_loop_everyone(_, _, _)
my_votes_loop_everyone(vs, ip, my_votes) ==
    IF vs = <<>> THEN my_votes
    ELSE LET v == Head(vs)
             cat_id == v.category_id
             seen == IF cat_id \in DOMAIN my_votes THEN my_votes[cat_id] ELSE <<>>
         IN  my_votes_loop_everyone(Tail(vs), ip,
                                    DictSet(my_votes, cat_id, Append(seen, v.participant_id)))

\* the loop of get_my_votes over the votes table
RECURSIVE my_votes_loop(_, _, _)
my_votes_loop(vs, ip, my_votes) ==
    IF vs = <<>> THEN my_votes
    ELSE LET v == Head(vs)
             cat_id == v.category_id
             seen == IF cat_id \in DOMAIN my_votes THEN my_votes[cat_id] ELSE <<>>
         IN  IF v.ip_address = ip
             THEN my_votes_loop(Tail(vs), ip,
                                DictSet(my_votes, cat_id, Append(seen, v.participant_id)))
             ELSE my_votes_loop(Tail(vs), ip, my_votes)

\* GET /api/my-votes
get_my_votes(headers, host) ==
    LET ip == get_client_ip(headers, host)
    IN  /\ req' = Response("my_votes", ip, "", None, 200, "",
                           my_votes_loop(votes, ip, <<>>))
        /\ UNCHANGED <<settings, categories, votes>>

\* {p['id']: 0 for p in cat['participants']}
zero_counters(cat) ==
    [p \in { cat.participants[i].id : i \in DOMAIN cat.participants } |-> 0]

\* the first loop of get_results: one zeroed entry per category
RECURSIVE results_init(_, _)
results_init(cats, results_data) ==
    IF cats = <<>> THEN results_data
    ELSE results_init(Tail(cats),
                      DictSet(results_data, Head(cats).id, zero_counters(Head(cats))))

\* the condition under which get_results counts a vote
counts_vote(results_data, c_id, p_id) ==
    c_id \in DOMAIN results_data /\ p_id \in DOMAIN results_data[c_id]

\* the second loop setting a counter instead of incrementing it
RECURSIVE results_tally_assign(_, _)
results_tally_assign(vs, results_data) ==
    IF vs = <<>> THEN results_data
    ELSE LET c_id == Head(vs).category_id
             p_id == Head(vs).participant_id
         IN  IF counts_vote(results_data, c_id, p_id)
             THEN results_tally_assign(Tail(vs),
                     DictSet(results_data, c_id,
                             DictSet(results_data[c_id], p_id, 1)))
             ELSE results_tally_assign(Tail(vs), results_data)

\* the second loop of get_results: one pass over the votes
RECURSIVE results_tally(_, _)
results_tally(vs, results_data) ==
    IF vs = <<>> THEN results_data
    ELSE LET c_id == Head(vs).category_id
             p_id == Head(vs).participant_id
         IN  IF counts_vote(results_data, c_id, p_id)
             THEN results_tally(Tail(vs),
                     DictSet(results_data, c_id,
                             DictSet(results_data[c_id], p_id,
                                     results_data[c_id][p_id] + 1)))
             ELSE results_tally(Tail(vs), results_data)

\* the visibility gate of get_results
results_hidden(s) == s.is_voting_active

\* get_results showing the tally to a request that carries the admin token
get_results_admin_peek(x_admin_token) ==
    LET results_data == results_tally(votes, results_init(categories, <<>>))
    IN  /\ req' = Response("results", <<>>, "", x_admin_token, 200, "",
                     IF results_hidden(settings) /\ ~verify_admin(x_admin_token)
                     THEN [visible |-> FALSE, message |-> "later"]
                     ELSE [visible |-> TRUE, data |-> results_data])
        /\ UNCHANGED <<settings, categories, votes>>

\* get_results writing back the votes table without the votes it did not count
get_results_pruning(x_admin_token) ==
    LET results_data == results_tally(votes, results_init(categories, <<>>))
        counted(v) == counts_vote(results_data, v.category_id, v.participant_id)
    IN  /\ req' = Response("results", <<>>, "", x_admin_token, 200, "",
                     IF results_hidden(settings)
                     THEN [visible |-> FALSE, message |-> "later"]
                     ELSE [visible |-> TRUE, data |-> results_data])
        /\ votes' = SelectSeq(votes, counted)
        /\ UNCHANGED <<settings, categories>>

\* GET /api/results (the route has no verify_admin dependency)
get_results(x_admin_token) ==
    LET results_data == results_tally(votes, results_init(categories, <<>>))
    IN  /\ req' = Response("results", <<>>, "", x_admin_token, 200, "",
                     IF results_hidden(settings)
                     THEN [visible |-> FALSE, message |-> "later"]
                     ELSE [visible |-> TRUE, data |-> results_data])
        /\ UNCHANGED <<settings, categories, votes>>

(* ------------------------------------------------------------------ *)
(* Vote ledger                                                         *)
(* ------------------------------------------------------------------ *)

\* the closed check consulted only when anti-abuse is on
voting_closed_when_guarded(s) == ~s.is_voting_active /\ s.anti_abuse_enabled

\* `if not settings.get('is_voting_active')` of cast_vote and reset_my_vote
voting_closed(s) == ~s.is_voting_active

\* v['ip_address'] == ip and v['category_id'] == category_id
vote_matches(v, ip, category_id) ==
    v.ip_address = ip /\ v.category_id = category_id

\* [v for v in votes if v['ip_address'] == ip and v['category_id'] == category_id]
user_cat_votes(vs, ip, category_id) ==
    LET keep(v) == vote_matches(v, ip, category_id) IN SelectSeq(vs, keep)

\* next((c for c in categories if c['id'] == category_id), None): the
\* first category with that id, as a list of at most one element
find_category(cats, category_id) ==
    LET hit(c) == c.id = category_id
        all == SelectSeq(cats, hit)
    IN  IF all = <<>> THEN <<>> ELSE <<Head(all)>>

\* the quota comparison off by one
quota_reached_strict(mine, category) == Len(mine) > category.max_votes

\* len(user_cat_votes) >= category.get('max_votes', 1)
quota_reached(mine, category) == Len(mine) >= category.max_votes

\* the quota branch taken whatever anti_abuse_enabled is
cast_check_always(s, vs, cats, ip, category_id) ==
    LET mine == user_cat_votes(vs, ip, category_id)
        category == find_category(cats, category_id)
    IN  IF category = <<>> THEN "category not found"
        ELSE IF quota_reached(mine, Head(category)) THEN "quota exceeded"
        ELSE ""

\* the quota branch of cast_vote: "" when the vote may be appended
cast_check(s, vs, cats, ip, category_id) ==
    IF s.anti_abuse_enabled
    THEN LET mine == user_cat_votes(vs, ip, category_id)
             category == find_category(cats, category_id)
         IN  IF category = <<>> THEN "category not found"
             ELSE IF quota_reached(mine, Head(category)) THEN "quota exceeded"
             ELSE ""
    ELSE ""

\* cast_vote saving the vote before it checks the quota
cast_vote_saves_first(vote_req, headers, host) ==
    LET ip == get_client_ip(headers, host)
        category_id == vote_req.category_id
        new_vote == [category_id |-> category_id,
                     participant_id |-> vote_req.participant_id,
                     ip_address |-> ip]
        verdict == cast_check(settings, votes, categories, ip, category_id)
    IN  IF voting_closed(settings)
        THEN /\ req' = Response("cast", <<>>, "", None, 400, "voting closed", <<>>)
             /\ UNCHANGED <<settings, categories, votes>>
        ELSE /\ Len(votes) < MaxLedger
             /\ votes' = Append(votes, new_vote)
             /\ req' = Response("cast", ip, category_id, None,
                                IF verdict = "category not found" THEN 404
                                ELSE IF verdict = "quota exceeded" THEN 403 ELSE 200,
                                IF verdict = "" THEN "success" ELSE verdict,
                                new_vote)
             /\ UNCHANGED <<settings, categories>>

\* cast_vote refusing a participant_id that is not in the category
cast_vote_validating(vote_req, headers, host) ==
    LET ip == get_client_ip(headers, host)
        category_id == vote_req.category_id
        new_vote == [category_id |-> category_id,
                     participant_id |-> vote_req.participant_id,
                     ip_address |-> ip]
        verdict == cast_check(settings, votes, categories, ip, category_id)
        category == find_category(categories, category_id)
        listed == \E i \in DOMAIN Head(category).participants :
                      Head(category).participants[i].id = vote_req.participant_id
        refuse(who, what, code, detail) ==
            /\ req' = Response("cast", who, what, None, code, detail, <<>>)
            /\ UNCHANGED <<settings, categories, votes>>
    IN  IF voting_closed(settings) THEN refuse(<<>>, "", 400, "voting closed")
        ELSE IF verdict = "category not found" THEN refuse(ip, category_id, 404, verdict)
        ELSE IF verdict = "quota exceeded" THEN refuse(ip, category_id, 403, verdict)
        ELSE IF category # <<>> /\ ~listed
        THEN refuse(ip, category_id, 404, "participant not found")
        ELSE /\ Len(votes) < MaxLedger
             /\ votes' = Append(votes, new_vote)
             /\ req' = Response("cast", ip, category_id, None, 200, "success",
                                vote_req)
             /\ UNCHANGED <<settings, categories>>

\* POST /api/vote
cast_vote(vote_req, headers, host) ==
    LET ip == get_client_ip(headers, host)
        category_id == vote_req.category_id
        new_vote == [category_id |-> category_id,
                     participant_id |-> vote_req.participant_id,
                     ip_address |-> ip]
        verdict == cast_check(settings, votes, categories, ip, category_id)
        refuse(who, what, code, detail) ==
            /\ req' = Response("cast", who, what, None, code, detail, <<>>)
            /\ UNCHANGED <<settings, categories, votes>>
    IN  IF voting_closed(settings) THEN refuse(<<>>, "", 400, "voting closed")
        ELSE IF verdict = "category not found" THEN refuse(ip, category_id, 404, verdict)
        ELSE IF verdict = "quota exceeded" THEN refuse(ip, category_id, 403, verdict)
        ELSE /\ Len(votes) < MaxLedger
             /\ votes' = Append(votes, new_vote)
             /\ req' = Response("cast", ip, category_id, None, 200, "success",
                                vote_req)
             /\ UNCHANGED <<settings, categories>>

\* payload.get("category_id")
payload_get(payload) ==
    IF "category_id" \in DOMAIN payload THEN payload.category_id ELSE None

\* the reset filter dropping the identity's votes of every category
votes_kept_any_category(vs, ip, category_id) ==
    LET keep(v) == ~(v.ip_address = ip) IN SelectSeq(vs, keep)

\* the reset filter dropping only the first matching vote
votes_kept_but_first(vs, ip, category_id) ==
    LET hits == { k \in DOMAIN vs : vote_matches(vs[k], ip, category_id) }
        first == IF hits = {} THEN 0 ELSE CHOOSE k \in hits : \A j \in hits : k <= j
    IN  IF first = 0 THEN vs
        ELSE SubSeq(vs, 1, first - 1) \o SubSeq(vs, first + 1, Len(vs))

\* [v for v in votes if not (v['ip_address'] == ip and v['category_id'] == category_id)]
votes_kept(vs, ip, category_id) ==
    LET keep(v) == ~vote_matches(v, ip, category_id) IN SelectSeq(vs, keep)

\* POST /api/vote/reset
reset_my_vote(payload, headers, host) ==
    LET ip == get_client_ip(headers, host)
        category_id == payload_get(payload)
        new_votes == votes_kept(votes, ip, category_id)
        reply(who, what, code, detail) ==
            /\ req' = Response("reset", who, what, None, code, detail, <<>>)
            /\ UNCHANGED <<settings, categories>>
    IN  IF voting_closed(settings)
        THEN reply(<<>>, "", 400, "voting closed") /\ UNCHANGED votes
        ELSE IF category_id = None \/ category_id = ""
        THEN reply(<<>>, category_id, 400, "category_id required") /\ UNCHANGED votes
        ELSE IF Len(new_votes) = Len(votes)
        THEN reply(ip, category_id, 200, "skipped") /\ UNCHANGED votes
        ELSE reply(ip, category_id, 200, "success") /\ votes' = new_votes

(* ------------------------------------------------------------------ *)
(* Admin                                                               *)
(* ------------------------------------------------------------------ *)

\* POST /api/admin/login
admin_login(password) ==
    /\ req' = IF sha256_hexdigest(password) = ADMIN_PASSWORD_HASH
              THEN Response("login", <<>>, "", None, 200, "", [token |-> SECRET_KEY])
              ELSE Response("login", <<>>, "", None, 401, "bad password", <<>>)
    /\ UNCHANGED <<settings, categories, votes>>

\* the 401 of Depends(verify_admin)
unauthorized(op, x_admin_token) ==
    /\ req' = Response(op, <<>>, "", x_admin_token, 401, "forbidden", <<>>)
    /\ UNCHANGED <<settings, categories, votes>>

\* GET /api/admin/data
get_admin_data(x_admin_token) ==
    IF ~verify_admin(x_admin_token) THEN unauthorized("admin_data", x_admin_token)
    ELSE /\ req' = Response("admin_data", <<>>, "", x_admin_token, 200, "",
                            [settings |-> settings, categories |-> categories,
                             votes |-> votes])
         /\ UNCHANGED <<settings, categories, votes>>

\* POST /api/admin/settings
update_settings(x_admin_token, body) ==
    IF ~verify_admin(x_admin_token) THEN unauthorized("update_settings", x_admin_token)
    ELSE /\ settings' = body
         /\ req' = Response("update_settings", <<>>, "", x_admin_token, 200, "updated",
                            body)
         /\ UNCHANGED <<categories, votes>>

\* update_categories deleting the votes of the categories it removes
update_categories_pruning(x_admin_token, body) ==
    IF ~verify_admin(x_admin_token) THEN unauthorized("update_categories", x_admin_token)
    ELSE LET live(v) == \E i \in DOMAIN body : body[i].id = v.category_id
         IN  /\ categories' = body
             /\ votes' = SelectSeq(votes, live)
             /\ req' = Response("update_categories", <<>>, "", x_admin_token, 200,
                                "updated", body)
             /\ UNCHANGED settings

\* update_categories adding the posted categories to the table it finds
update_categories_appending(x_admin_token, body) ==
    IF ~verify_admin(x_admin_token) THEN unauthorized("update_categories", x_admin_token)
    ELSE /\ categories' = categories \o body
         /\ req' = Response("update_categories", <<>>, "", x_admin_token, 200, "updated",
                            body)
         /\ UNCHANGED <<settings, votes>>

\* POST /api/admin/categories
update_categories(x_admin_token, body) ==
    IF ~verify_admin(x_admin_token) THEN unauthorized("update_categories", x_admin_token)
    ELSE /\ categories' = body
         /\ req' = Response("update_categories", <<>>, "", x_admin_token, 200, "updated",
                            body)
         /\ UNCHANGED <<settings, votes>>

(* ------------------------------------------------------------------ *)
(* The service: one request at a time                                  *)
(* ------------------------------------------------------------------ *)

Next ==
    \/ \E t \in Tokens, b \in CategoryTables : update_categories(t, b)
    \/ \E t \in Tokens, b \in SettingsBodies : update_settings(t, b)
    \/ \E t \in Tokens : get_admin_data(t)
    \/ \E p \in Passwords : admin_login(p)
    \/ \E v \in VoteRequests, o \in Origins : cast_vote(v, o.headers, o.host)
    \/ \E p \in ResetPayloads, o \in Origins : reset_my_vote(p, o.headers, o.host)
    \/ \E t \in Tokens : get_results(t)
    \/ \E o \in Origins : get_my_votes(o.headers, o.host)
    \/ get_categories
    \/ get_status

Spec == Init /\ [][Next]_vars

(* ------------------------------------------------------------------ *)
(* The service with saves that can fail                                *)
(* ------------------------------------------------------------------ *)

\* JsonDB.load on a file that is missing or does not decode
default_document(table) == IF table = "settings" THEN DefaultSettings ELSE <<>>

\* what a later load(table) can return once save(table, new) has raised:
\* the old document when open() failed; the default when the file was
\* truncated by open(..., "w") and the dump or the flush failed, for the
\* file then does not decode; the new document when only close() failed
load_after_failed_save(table, old, new) == { old, default_document(table), new }

\* the 500 of JsonDB.save; `body` keeps the document that was to be saved
save_failed(op, ip, category_id, token, data) ==
    req' = Response(op, ip, category_id, token, 500, "save failed", data)

\* POST /api/vote, accepted, whose db.save("votes", votes) raises
cast_vote_save_fails(vote_req, headers, host) ==
    LET ip == get_client_ip(headers, host)
        category_id == vote_req.category_id
        new_vote == [category_id |-> category_id,
                     participant_id |-> vote_req.participant_id,
                     ip_address |-> ip]
        data == Append(votes, new_vote)
    IN  /\ ~voting_closed(settings)
        /\ cast_check(settings, votes, categories, ip, category_id) = ""
        /\ Len(votes) < MaxLedger
        /\ votes' \in load_after_failed_save("votes", votes, data)
        /\ save_failed("cast", ip, category_id, None, data)
        /\ UNCHANGED <<settings, categories>>

\* POST /api/vote/reset with votes to remove, whose db.save("votes", new_votes) raises
reset_my_vote_save_fails(payload, headers, host) ==
    LET ip == get_client_ip(headers, host)
        category_id == payload_get(payload)
        new_votes == votes_kept(votes, ip, category_id)
    IN  /\ ~voting_closed(settings)
        /\ ~(category_id = None \/ category_id = "")
        /\ Len(new_votes) # Len(votes)
        /\ votes' \in load_after_failed_save("votes", votes, new_votes)
        /\ save_failed("reset", ip, category_id, None, new_votes)
        /\ UNCHANGED <<settings, categories>>

\* POST /api/admin/settings, authorized, whose db.save raises
update_settings_save_fails(x_admin_token, body) ==
    /\ verify_admin(x_admin_token)
    /\ settings' \in load_after_failed_save("settings", settings, body)
    /\ save_failed("update_settings", <<>>, "", x_admin_token, body)
    /\ UNCHANGED <<categories, votes>>

\* POST /api/admin/categories, authorized, whose db.save raises
update_categories_save_fails(x_admin_token, body) ==
    /\ verify_admin(x_admin_token)
    /\ categories' \in load_after_failed_save("categories", categories, body)
    /\ save_failed("update_categories", <<>>, "", x_admin_token, body)
    /\ UNCHANGED <<settings, votes>>

NextStore ==
    \/ Next
    \/ \E t \in Tokens, b \in CategoryTables : update_categories_save_fails(t, b)
    \/ \E t \in Tokens, b \in SettingsBodies : update_settings_save_fails(t, b)
    \/ \E v \in VoteRequests, o \in Origins : cast_vote_save_fails(v, o.headers, o.host)
    \/ \E p \in ResetPayloads, o \in Origins :
          reset_my_vote_save_fails(p, o.headers, o.host)

SpecStore == Init /\ [][NextStore]_vars

(* ------------------------------------------------------------------ *)
(* Several server processes over one data directory                    *)
(* ------------------------------------------------------------------ *)

(***************************************************************************)
(* Inside one server process a handler is never suspended.  The __main__   *)
(* block starts the API on the first free port of PREFERRED_PORTS, so a    *)
(* second and a third copy of the program can run beside the first one,    *)
(* all three on the files of DATA_DIR.  Between two such processes the     *)
(* handlers of cast_vote and reset_my_vote interleave at their file        *)
(* operations: the loads (settings, votes, categories) of one handler,     *)
(* taken here as one step because settings and categories stay as they are *)
(* in this specification, and its save.  Here `req` has one entry per      *)
(* process: the request the process is handling, or the last one it        *)
(* answered, with the votes list the handler loaded while it is in flight. *)
(* Voting is active and anti-abuse is on.                                  *)
(***************************************************************************)

\* the server processes
Instances == {1, 2}

\* the entry of a process that has answered: Response and the two
\* observations of its save, `lost` (a vote of the table it overwrote, which
\* the request did not ask to remove, is not in the table it wrote) and
\* `revived` (the table it wrote holds a vote, not the request's own, that
\* the table it overwrote did not hold)
Answered(op, ip, category_id, code, detail, lost, revived) ==
    [pc |-> "idle", op |-> op, ip |-> ip, category_id |-> category_id,
     code |-> code, detail |-> detail, vote |-> <<>>, snapshot |-> <<>>,
     lost |-> lost, revived |-> revived]

\* the entry of a process whose handler has loaded and checked and has
\* still to save
Loaded(op, ip, category_id, vote, snapshot) ==
    [pc |-> "loaded", op |-> op, ip |-> ip, category_id |-> category_id,
     code |-> 0, detail |-> "", vote |-> vote, snapshot |-> snapshot,
     lost |-> FALSE, revived |-> FALSE]

InitOverlap ==
    /\ settings = [is_voting_active |-> TRUE, anti_abuse_enabled |-> TRUE]
    /\ categories \in CategoryTables
    /\ votes = <<>>
    /\ req = [i \in Instances |-> Answered("boot", <<>>, "", 200, "", FALSE, FALSE)]

\* occurrences of a record in a votes table
Occurrences(vs, v) == Cardinality({ k \in DOMAIN vs : vs[k] = v })

\* cast_vote appending to the votes table as it is when the save is made
cast_vote_saved_merging(snapshot, current, new_vote) == Append(current, new_vote)

\* votes.append(new_vote); db.save("votes", votes): `votes` is the list the
\* handler loaded, whatever the file holds by now
cast_vote_saved(snapshot, current, new_vote) == Append(snapshot, new_vote)

\* reset_my_vote filtering the votes table as it is when the save is made
reset_my_vote_saved_merging(snapshot, current, ip, category_id) ==
    votes_kept(current, ip, category_id)

\* db.save("votes", new_votes): new_votes was filtered from the list the
\* handler loaded
reset_my_vote_saved(snapshot, current, ip, category_id) ==
    votes_kept(snapshot, ip, category_id)

\* cast_vote up to the quota check (lines 176-188)
cast_vote_load(i, vote_req, headers, host) ==
    LET ip == get_client_ip(headers, host)
        category_id == vote_req.category_id
        new_vote == [category_id |-> category_id,
                     participant_id |-> vote_req.participant_id,
                     ip_address |-> ip]
        verdict == cast_check(settings, votes, categories, ip, category_id)
        refuse(who, what, code, detail) ==
            req' = [req EXCEPT ![i] = Answered("cast", who, what, code, detail,
                                               FALSE, FALSE)]
    IN  /\ req[i].pc = "idle"
        /\ IF voting_closed(settings) THEN refuse(<<>>, "", 400, "voting closed")
           ELSE IF verdict = "category not found"
           THEN refuse(ip, category_id, 404, verdict)
           ELSE IF verdict = "quota exceeded"
           THEN refuse(ip, category_id, 403, verdict)
           ELSE /\ Len(votes) < MaxLedger
                /\ req' = [req EXCEPT ![i] = Loaded("cast", ip, category_id,
                                                    new_vote, votes)]
        /\ UNCHANGED <<settings, categories, votes>>

\* cast_vote from the append to the response (lines 189-197)
cast_vote_save(i) ==
    LET data == cast_vote_saved(req[i].snapshot, votes, req[i].vote)
        lost == \E k \in DOMAIN votes :
                    Occurrences(data, votes[k]) < Occurrences(votes, votes[k])
        revived == \E k \in DOMAIN data :
                      Occurrences(data, data[k]) >
                          Occurrences(votes, data[k])
                              + (IF data[k] = req[i].vote THEN 1 ELSE 0)
    IN  /\ req[i].pc = "loaded" /\ req[i].op = "cast"
        /\ votes' = data
        /\ req' = [req EXCEPT ![i] = Answered("cast", req[i].ip, req[i].category_id,
                                               200, "success", lost, revived)]
        /\ UNCHANGED <<settings, categories>>

\* reset_my_vote up to the comparison of the lengths (lines 201-211)
reset_my_vote_load(i, payload, headers, host) ==
    LET ip == get_client_ip(headers, host)
        category_id == payload_get(payload)
        new_votes == votes_kept(votes, ip, category_id)
        reply(who, what, code, detail) ==
            req' = [req EXCEPT ![i] = Answered("reset", who, what, code, detail,
                                               FALSE, FALSE)]
    IN  /\ req[i].pc = "idle"
        /\ IF voting_closed(settings) THEN reply(<<>>, "", 400, "voting closed")
           ELSE IF category_id = None \/ category_id = ""
           THEN reply(<<>>, category_id, 400, "category_id required")
           ELSE IF Len(new_votes) = Len(votes)
           THEN reply(ip, category_id, 200, "skipped")
           ELSE req' = [req EXCEPT ![i] = Loaded("reset", ip, category_id, <<>>, votes)]
        /\ UNCHANGED <<settings, categories, votes>>

\* reset_my_vote from the save to the response (lines 213-214)
reset_my_vote_save(i) ==
    LET data == reset_my_vote_saved(req[i].snapshot, votes, req[i].ip,
                                    req[i].category_id)
        lost == \E k \in DOMAIN votes :
                    /\ ~vote_matches(votes[k], req[i].ip, req[i].category_id)
                    /\ Occurrences(data, votes[k]) < Occurrences(votes, votes[k])
        revived == \E k \in DOMAIN data :
                      Occurrences(data, data[k]) > Occurrences(votes, data[k])
    IN  /\ req[i].pc = "loaded" /\ req[i].op = "reset"
        /\ votes' = data
        /\ req' = [req EXCEPT ![i] = Answered("reset", req[i].ip, req[i].category_id,
                                               200, "success", lost, revived)]
        /\ UNCHANGED <<settings, categories>>

\* the casts explored between processes: the participant plays no part in
\* what a save overwrites
OverlapVoteRequests == { v \in VoteRequests : v.participant_id = "p1" }

NextOverlap ==
    \/ \E i \in Instances, v \in OverlapVoteRequests, o \in Origins :
          cast_vote_load(i, v, o.headers, o.host)
    \/ \E i \in Instances : cast_vote_save(i)
    \/ \E i \in Instances, p \in ResetPayloads, o \in Origins :
          reset_my_vote_load(i, p, o.headers, o.host)
    \/ \E i \in Instances : reset_my_vote_save(i)

SpecOverlap == InitOverlap /\ [][NextOverlap]_vars

(* ------------------------------------------------------------------ *)
(* get_client_ip on its own                                            *)
(* ------------------------------------------------------------------ *)

HeaderChars == {"a", "b", ",", " "}

\* values of a proxy header: strings of letters, commas and blanks
HeaderValues == UNION { [1..n -> HeaderChars] : n \in 0..MaxHeader }

\* request.headers restricted to the two proxy headers, each present or not
HeaderSets ==
    { <<>> } \cup { [cf_connecting_ip |-> c] : c \in HeaderValues }
             \cup { [x_forwarded_for |-> f] : f \in HeaderValues }
             \cup [cf_connecting_ip : HeaderValues, x_forwarded_for : HeaderValues]

\* request.client.host
PeerAddresses == { <<"a">>, <<"b">> }

\* a request has arrived: its headers and its peer address are in `body`
InitIdentity ==
    /\ settings = DefaultSettings
    /\ categories = <<>>
    /\ votes = <<>>
    /\ \E h \in HeaderSets, a \in PeerAddresses :
          req = Response("request", <<>>, "", None, 200, "", [headers |-> h, host |-> a])

\* ip = get_client_ip(request), the first thing cast_vote, reset_my_vote and
\* get_my_votes do with the request
resolve_identity ==
    /\ req.op = "request"
    /\ req' = [req EXCEPT !.op = "identity",
                          !.ip = get_client_ip(req.body.headers, req.body.host)]
    /\ UNCHANGED <<settings, categories, votes>>

NextIdentity == resolve_identity

SpecIdentity == InitIdentity /\ [][NextIdentity]_vars

(* ------------------------------------------------------------------ *)
(* Vocabulary of the properties                                         *)
(* ------------------------------------------------------------------ *)

\* number of records of a votes table cast by ip in category_id
CountVotes(vs, ip, category_id) ==
    Cardinality({ k \in DOMAIN vs :
                    vs[k].ip_address = ip /\ vs[k].category_id = category_id })

\* number of records of a votes table naming (category_id, participant_id)
CountFor(vs, category_id, participant_id) ==
    Cardinality({ k \in DOMAIN vs :
                    /\ vs[k].category_id = category_id
                    /\ vs[k].participant_id = participant_id })

CategoryIdsOf(cats) == { cats[i].id : i \in DOMAIN cats }

ParticipantIdsOf(cat) == { cat.participants[i].id : i \in DOMAIN cat.participants }

\* the category of a table with the given id (ids are unique in a table)
CategoryOf(cats, category_id) ==
    cats[CHOOSE i \in DOMAIN cats : cats[i].id = category_id]

TablesUnchanged == UNCHANGED <<settings, categories, votes>>

\* with anti-abuse on, nobody holds more votes in a category than its max_votes
QuotaRespected ==
    settings.anti_abuse_enabled =>
        \A ip \in Identities, i \in DOMAIN categories :
            CountVotes(votes, ip, categories[i].id) <= categories[i].max_votes

\* the cast just answered got as far as the quota check of an existing category
CastReachedQuotaCheck ==
    /\ req'.op = "cast"
    /\ settings.is_voting_active
    /\ settings.anti_abuse_enabled
    /\ req'.category_id \in CategoryIdsOf(categories)

(* ------------------------------------------------------------------ *)
(* Properties                                                           *)
(* ------------------------------------------------------------------ *)

\* C1 (as claimed): in every reachable state, with anti_abuse_enabled true,
\* every identity holds at most max_votes votes in every existing category.
C1_QuotaInvariant == QuotaRespected

\* C1 (amended): a request that leaves the settings and the categories
\* tables as they are (every cast and reset, every read) keeps the quota
\* property: if it held before the request, it holds after it, whatever
\* the request did to the votes table.
C1_QuotaPreserved ==
    [][ (/\ votes' # votes
         /\ settings' = settings /\ categories' = categories
         /\ QuotaRespected)
            => QuotaRespected' ]_vars

\* a cast was accepted under anti-abuse while another identity already
\* held a vote in the same category, and the quota property holds
C1_Witness ==
    /\ req.op = "cast" /\ req.code = 200
    /\ settings.anti_abuse_enabled
    /\ QuotaRespected
    /\ \E ip \in Identities :
          ip # req.ip /\ CountVotes(votes, ip, req.category_id) > 0

\* C2: a cast that reaches the quota check (voting active, anti-abuse
\* enabled, existing category) is refused with the quota error exactly when
\* the identity already holds max_votes or more votes in the category;
\* after an accepted one the identity holds at most max_votes there.
C2_QuotaCheck ==
    [][ CastReachedQuotaCheck =>
          LET held  == CountVotes(votes, req'.ip, req'.category_id)
              limit == CategoryOf(categories, req'.category_id).max_votes
          IN  /\ (req'.code = 403 /\ req'.detail = "quota exceeded") <=> held >= limit
              /\ req'.code = 200 <=> held < limit
              /\ req'.code = 200 =>
                    CountVotes(votes', req'.ip, req'.category_id) <= limit ]_vars

\* an accepted cast that used up the identity's last vote of the category
C2_Witness ==
    /\ req.op = "cast" /\ req.code = 200
    /\ settings.anti_abuse_enabled
    /\ req.category_id \in CategoryIdsOf(categories)
    /\ CountVotes(votes, req.ip, req.category_id)
          = CategoryOf(categories, req.category_id).max_votes

\* C3: while is_voting_active is false every cast and every reset is
\* refused with the closed-voting error and the votes table stays as it is.
C3_ClosedRefuses ==
    [][ (req'.op \in {"cast", "reset"} /\ ~settings.is_voting_active)
            => /\ req'.code = 400
               /\ req'.detail = "voting closed"
               /\ votes' = votes ]_vars

\* a reset refused as closed although the table holds votes, anti-abuse off
C3_Witness ==
    /\ req.op = "reset" /\ req.detail = "voting closed"
    /\ votes # <<>>
    /\ ~settings.anti_abuse_enabled

\* C4: the results view answers visible:false without data while voting is
\* active and visible:true with one entry per category once it is not,
\* whatever admin token the request carries.
C4_VisibilityGate ==
    [][ req'.op = "results" =>
          IF settings.is_voting_active
          THEN /\ req'.body.visible = FALSE
               /\ "data" \notin DOMAIN req'.body
          ELSE /\ req'.body.visible = TRUE
               /\ "data" \in DOMAIN req'.body
               /\ DOMAIN req'.body.data = CategoryIdsOf(categories) ]_vars

\* the administrator's own token gets no tally while voting is open
C4_Witness ==
    /\ req.op = "results" /\ req.token = SECRET_KEY
    /\ req.body.visible = FALSE
    /\ votes # <<>> /\ categories # <<>>

\* the votes of a table that reset(ip, category_id) must leave, in order
Remaining(vs, ip, category_id) ==
    LET stay == { k \in DOMAIN vs :
                    ~(vs[k].ip_address = ip /\ vs[k].category_id = category_id) }
        nth(n) == CHOOSE k \in stay : Cardinality({ j \in stay : j <= k }) = n
    IN  [n \in 1..Cardinality(stay) |-> vs[nth(n)]]

\* the reset just answered was made while voting is active, with a category_id
ResetApplied ==
    /\ req'.op = "reset"
    /\ settings.is_voting_active
    /\ req'.category_id \notin {None, ""}

C6_Tally ==
    [][ (req'.op = "results" /\ ~settings.is_voting_active) =>
          LET data == req'.body.data
          IN  /\ DOMAIN data = CategoryIdsOf(categories)
              /\ \A i \in DOMAIN categories :
                    LET cat == categories[i]
                    IN  /\ DOMAIN data[cat.id] = ParticipantIdsOf(cat)
                        /\ \A p \in ParticipantIdsOf(cat) :
                              data[cat.id][p] = CountFor(votes, cat.id, p) ]_vars

\* a tally in which one participant has two votes
C6_Witness ==
    /\ req.op = "results" /\ req.body.visible
    /\ \E c \in DOMAIN req.body.data :
          \E p \in DOMAIN req.body.data[c] : req.body.data[c][p] = 2

\* C7: with voting active and anti-abuse on, in a category whose max_votes
\* is N, a cast by an identity holding k votes there succeeds exactly when
\* k < N and then the identity holds k + 1, and a refused cast leaves k; a
\* successful reset leaves the identity 0 votes there.  So from 0 votes
\* exactly the first N casts succeed and the next is refused with the quota
\* error, and after a successful reset exactly N succeed again.
C7_QuotaCycle ==
    [][ /\ CastReachedQuotaCheck =>
            LET k == CountVotes(votes, req'.ip, req'.category_id)
                N == CategoryOf(categories, req'.category_id).max_votes
                after == CountVotes(votes', req'.ip, req'.category_id)
            IN  IF k < N THEN req'.code = 200 /\ after = k + 1
                         ELSE req'.code = 403 /\ after = k
        /\ (req'.op = "reset" /\ req'.detail = "success") =>
              /\ CountVotes(votes, req'.ip, req'.category_id) > 0
              /\ CountVotes(votes', req'.ip, req'.category_id) = 0 ]_vars

\* the third cast of an identity in a category with max_votes = 2, refused
C7_Witness ==
    /\ req.op = "cast" /\ req.code = 403
    /\ req.category_id \in CategoryIdsOf(categories)
    /\ CategoryOf(categories, req.category_id).max_votes = 2
    /\ CountVotes(votes, req.ip, req.category_id) = 2

\* C8 (as claimed): with voting active, a cast whose category_id is not in
\* the categories table is refused with the not-found error and appends no
\* vote, whatever anti_abuse_enabled is.
C8_UnknownCategoryRefused ==
    [][ (/\ req'.op = "cast"
         /\ settings.is_voting_active
         /\ req'.category_id \notin CategoryIdsOf(categories))
            => req'.code = 404 /\ votes' = votes ]_vars

\* C9: get_admin_data, update_settings and update_categories answer 401 to
\* a request whose admin token is absent or differs from the secret,
\* whatever its body, and leave the three tables as they are.
C9_AdminGate ==
    [][ (/\ req'.op \in {"admin_data", "update_settings", "update_categories"}
         /\ req'.token # SECRET_KEY)
            => req'.code = 401 /\ TablesUnchanged ]_vars

\* a settings update refused for a token that differs from the secret in case
C9_Witness ==
    /\ req.op = "update_settings" /\ req.code = 401
    /\ req.token = "SUPERSECRETKEY"

\* C10: a request answered with an error (closed voting, unknown category,
\* quota, missing category_id, bad password, bad admin token) leaves the
\* settings, categories and votes tables as they were.
C10_ErrorsChangeNothing ==
    [][ req'.code >= 400 => TablesUnchanged ]_vars

\* a cast refused with the not-found error while the table holds votes
C10_Witness ==
    /\ req.op = "cast" /\ req.code = 404
    /\ votes # <<>> /\ categories # <<>>

\* the operations that only read the tables
ReadOps == {"status", "categories", "my_votes", "results", "admin_data"}

\* C14: a results request, like the status, categories, my-votes and
\* admin-data reads, changes none of the three tables, and a results
\* request that directly follows another one returns the same body.
C14_ReadsChangeNothing ==
    [][ /\ req'.op \in ReadOps => TablesUnchanged
        /\ (req.op = "results" /\ req'.op = "results") => req'.body = req.body ]_vars

\* a tally given to the administrator while the table holds a vote it counts
\* and a vote it does not count
C14_Witness ==
    /\ req.op = "results" /\ req.token = SECRET_KEY /\ req.body.visible
    /\ \E k \in DOMAIN votes :
          /\ votes[k].category_id \in DOMAIN req.body.data
          /\ votes[k].participant_id \notin DOMAIN req.body.data[votes[k].category_id]
    /\ \E k \in DOMAIN votes :
          /\ votes[k].category_id \in DOMAIN req.body.data
          /\ votes[k].participant_id \in DOMAIN req.body.data[votes[k].category_id]

\* C15: only an authorized settings update changes the settings table
\* (is_voting_active included) and only an authorized categories update
\* changes the categories table; each puts the posted document in place of
\* its table and leaves the other two tables, votes included, as they are.
C15_AdminFrame ==
    [][ /\ settings' # settings =>
              req'.op = "update_settings" /\ req'.token = SECRET_KEY
        /\ categories' # categories =>
              req'.op = "update_categories" /\ req'.token = SECRET_KEY
        /\ (req'.op = "update_settings" /\ req'.code = 200) =>
              settings' = req'.body /\ UNCHANGED <<categories, votes>>
        /\ (req'.op = "update_categories" /\ req'.code = 200) =>
              categories' = req'.body /\ UNCHANGED <<settings, votes>> ]_vars

\* a categories update that put a one-category table in place while voting
\* is active and the votes table holds a vote of another category
C15_Witness ==
    /\ req.op = "update_categories" /\ req.code = 200
    /\ Len(categories) = 1
    /\ settings.is_voting_active
    /\ \E k \in DOMAIN votes : votes[k].category_id \notin CategoryIdsOf(categories)

\* C17: an accepted cast puts one record at the end of the votes table,
\* made of the request's category_id and participant_id and of the
\* resolved identity, and leaves the records before it as they were and in
\* order; with voting active and anti-abuse disabled a cast for an existing
\* category is accepted however many votes the identity holds there.
C17_AcceptedCastAppends ==
    [][ /\ (req'.op = "cast" /\ req'.code = 200) =>
              /\ req'.body.category_id = req'.category_id
              /\ votes' = Append(votes, [category_id |-> req'.body.category_id,
                                         participant_id |-> req'.body.participant_id,
                                         ip_address |-> req'.ip])
              /\ UNCHANGED <<settings, categories>>
        /\ (/\ req'.op = "cast"
            /\ settings.is_voting_active /\ ~settings.anti_abuse_enabled
            /\ req'.category_id \in CategoryIdsOf(categories))
              => req'.code = 200 ]_vars

\* with anti-abuse disabled, a second vote accepted in a category whose
\* max_votes is 1, behind a first vote of the same identity
C17_Witness ==
    /\ req.op = "cast" /\ req.code = 200
    /\ settings.is_voting_active /\ ~settings.anti_abuse_enabled
    /\ req.category_id \in CategoryIdsOf(categories)
    /\ CategoryOf(categories, req.category_id).max_votes = 1
    /\ Len(votes) = 2
    /\ votes[1].ip_address = req.ip /\ votes[1].category_id = req.category_id
    /\ votes[2].participant_id = req.body.participant_id

\* the participant_ids of the votes of a table cast by ip in category_id, in
\* the order of the table
PicksOf(vs, ip, category_id) ==
    LET mine == { k \in DOMAIN vs :
                    vs[k].ip_address = ip /\ vs[k].category_id = category_id }
        nth(n) == CHOOSE k \in mine : Cardinality({ j \in mine : j <= k }) = n
    IN  [n \in 1..Cardinality(mine) |-> vs[nth(n)].participant_id]

\* C18: in either phase the my-votes view of an identity has one key per
\* category_id in which the identity holds at least one vote and no other
\* key, and under each key the participant_ids of exactly that identity's
\* votes of that category, in the order of the votes table, duplicates kept.
C18_MyVotes ==
    [][ req'.op = "my_votes" =>
          /\ req'.code = 200
          /\ DOMAIN req'.body =
                { votes[k].category_id : k \in { j \in DOMAIN votes :
                                                   votes[j].ip_address = req'.ip } }
          /\ \A c \in DOMAIN req'.body : req'.body[c] = PicksOf(votes, req'.ip, c) ]_vars

\* with voting closed, the view of an identity that voted p2 and then p1 in
\* one category and holds no vote in the other one
C18_Witness ==
    /\ req.op = "my_votes" /\ ~settings.is_voting_active
    /\ \E c \in DOMAIN req.body : req.body[c] = <<"p2", "p1">>
    /\ Cardinality(DOMAIN req.body) = 1

\* the tally get_results would compute from the given tables
TallyOf(vs, cats) == results_tally(vs, results_init(cats, <<>>))

\* C19: cast_vote never looks at the category's participants.  While voting
\* is active a cast is refused only by the anti-abuse branch (unknown
\* category, or quota reached); every accepted cast, whatever its
\* participant_id, uses one unit of the identity's quota in the category;
\* and an accepted cast naming a participant that is not in the existing
\* category is listed by my-votes and changes no counter of the tally.
C19_ParticipantUnchecked ==
    [][ /\ (req'.op = "cast" /\ settings.is_voting_active /\ req'.code # 200) =>
              /\ settings.anti_abuse_enabled
              /\ \/ /\ req'.code = 404
                    /\ req'.category_id \notin CategoryIdsOf(categories)
                 \/ /\ req'.code = 403
                    /\ req'.category_id \in CategoryIdsOf(categories)
                    /\ CountVotes(votes, req'.ip, req'.category_id)
                          >= CategoryOf(categories, req'.category_id).max_votes
        /\ (req'.op = "cast" /\ req'.code = 200) =>
              CountVotes(votes', req'.ip, req'.category_id)
                  = CountVotes(votes, req'.ip, req'.category_id) + 1
        /\ (/\ req'.op = "cast" /\ req'.code = 200
            /\ req'.category_id \in CategoryIdsOf(categories)
            /\ req'.body.participant_id
                  \notin ParticipantIdsOf(CategoryOf(categories, req'.category_id)))
              => /\ my_votes_loop(votes', req'.ip, <<>>)[req'.category_id]
                       = Append(PicksOf(votes, req'.ip, req'.category_id),
                                req'.body.participant_id)
                 /\ TallyOf(votes', categories') = TallyOf(votes, categories) ]_vars

\* under anti-abuse, the second vote of an identity for a participant that
\* is not in the category (max_votes 2) was accepted and used up its quota
C19_Witness ==
    /\ req.op = "cast" /\ req.code = 200
    /\ settings.anti_abuse_enabled
    /\ req.category_id \in CategoryIdsOf(categories)
    /\ req.body.participant_id
          \notin ParticipantIdsOf(CategoryOf(categories, req.category_id))
    /\ PicksOf(votes, req.ip, req.category_id)
          = <<req.body.participant_id, req.body.participant_id>>
    /\ CategoryOf(categories, req.category_id).max_votes = 2

\* C20: an accepted categories update leaves the votes table as it is.  In
\* the tally computed from the new table every vote whose category and
\* participant are in the new table is counted, whether or not they were in
\* the old one, and no other vote is; and the quota check of the new table
\* counts every vote the identity holds in the category.
C20_StaleVotesKept ==
    [][ (req'.op = "update_categories" /\ req'.code = 200) =>
          /\ votes' = votes
          /\ LET tally == TallyOf(votes', categories')
             IN  /\ DOMAIN tally = CategoryIdsOf(categories')
                 /\ \A i \in DOMAIN categories' :
                       \A p \in ParticipantIdsOf(categories'[i]) :
                           tally[categories'[i].id][p]
                               = CountFor(votes, categories'[i].id, p)
          /\ \A i \in DOMAIN categories' :
                LET cat == categories'[i]
                IN  \A ip \in Identities :
                        (cast_check([settings' EXCEPT !.anti_abuse_enabled = TRUE],
                                    votes', categories', ip, cat.id) = "quota exceeded")
                            <=> CountVotes(votes, ip, cat.id) >= cat.max_votes ]_vars

\* a categories update after which the table holds a category with a vote
\* that fills an identity's quota there, and not the category of another
\* vote still in the votes table
C20_Witness ==
    /\ req.op = "update_categories" /\ req.code = 200
    /\ \E k \in DOMAIN votes : votes[k].category_id \notin CategoryIdsOf(categories)
    /\ \E k \in DOMAIN votes :
          /\ votes[k].category_id \in CategoryIdsOf(categories)
          /\ votes[k].participant_id
                \in ParticipantIdsOf(CategoryOf(categories, votes[k].category_id))
          /\ CountVotes(votes, votes[k].ip_address, votes[k].category_id)
                >= CategoryOf(categories, votes[k].category_id).max_votes

\* the first comma-separated entry of a header value without the blanks
\* around it
FirstEntryTrimmed(s) ==
    LET commas == { k \in DOMAIN s : s[k] = "," }
        last == IF commas = {} THEN Len(s)
                ELSE (CHOOSE k \in commas : \A j \in commas : k <= j) - 1
        solid == { k \in 1..last : s[k] # " " }
    IN  IF solid = {} THEN <<>>
        ELSE SubSeq(s, CHOOSE k \in solid : \A j \in solid : k <= j,
                       CHOOSE k \in solid : \A j \in solid : k >= j)

\* C16: the identity is the CF-Connecting-IP value as sent when that header
\* is present and not empty; otherwise the first comma-separated entry of
\* X-Forwarded-For without the blanks around it when that header is present
\* and not empty; otherwise request.client.host.
C16_IdentityPrecedence ==
    req.op = "identity" =>
        LET h == req.body.headers
            sent(name) == name \in DOMAIN h /\ h[name] # <<>>
        IN  req.ip = IF sent("cf_connecting_ip") THEN h.cf_connecting_ip
                     ELSE IF sent("x_forwarded_for")
                          THEN FirstEntryTrimmed(h.x_forwarded_for)
                          ELSE req.body.host

\* CF-Connecting-IP sent empty and X-Forwarded-For " b" from peer a: the
\* identity is b
C16_Witness ==
    /\ req.op = "identity"
    /\ req.body.headers = [cf_connecting_ip |-> <<>>, x_forwarded_for |-> <<" ", "b">>]
    /\ req.body.host = <<"a">>
    /\ req.ip = <<"b">>

\* C11 (as claimed): a request whose save fails is answered 500, and what
\* a later load of the table returns is the whole old document or the whole
\* document that was to be saved, never the default one in their place; the
\* other two tables are as they were.
C11_FailedSaveKeepsDocument ==
    [][ req'.code = 500 =>
          /\ req'.op \in {"cast", "reset"} =>
                votes' \in {votes, req'.body} /\ UNCHANGED <<settings, categories>>
          /\ req'.op = "update_settings" =>
                settings' \in {settings, req'.body} /\ UNCHANGED <<categories, votes>>
          /\ req'.op = "update_categories" =>
                categories' \in {categories, req'.body} /\ UNCHANGED <<settings, votes>>
      ]_vars

\* process i saves the votes table in this step
Saves(i) == req[i].pc = "loaded" /\ req'[i].pc = "idle"

\* C12 (as claimed): when a cast that passed the quota check with one vote
\* left to the identity in the category saves after another cast of the same
\* identity and category has used that vote, the identity then holds more
\* than max_votes votes in the category.
C12_OverlapExceedsQuota ==
    [][ \A i \in Instances :
          LET pair(vs) == CountVotes(vs, req[i].ip, req[i].category_id)
              limit == CategoryOf(categories, req[i].category_id).max_votes
          IN  (/\ Saves(i) /\ req[i].op = "cast"
               /\ pair(req[i].snapshot) = limit - 1
               /\ pair(votes) = limit)
                  => pair(votes') > limit ]_vars

\* C12 (amended): with anti-abuse on and the settings and categories as they
\* are, no interleaving of the loads and saves of casts and resets leaves an
\* identity with more than max_votes votes in a category, and every cast in
\* flight past the quota check loaded a table in which the identity held
\* fewer than max_votes votes there.
C12_OverlapKeepsQuota ==
    /\ settings.anti_abuse_enabled
    /\ \A ip \in Identities, k \in DOMAIN categories :
          CountVotes(votes, ip, categories[k].id) <= categories[k].max_votes
    /\ \A i \in Instances :
          (req[i].pc = "loaded" /\ req[i].op = "cast") =>
              CountVotes(req[i].snapshot, req[i].ip, req[i].category_id)
                  < CategoryOf(categories, req[i].category_id).max_votes

\* two casts of one identity in a category with max_votes = 1 have both
\* passed the quota check on the empty table; one has saved and been
\* answered success, the other has still to save
C12_Witness ==
    \E i, j \in Instances :
        /\ req[i].pc = "idle" /\ req[i].op = "cast" /\ req[i].code = 200
        /\ req[j].pc = "loaded" /\ req[j].op = "cast"
        /\ req[j].ip = req[i].ip /\ req[j].category_id = req[i].category_id
        /\ CategoryOf(categories, req[j].category_id).max_votes = 1
        /\ req[j].snapshot = <<>>
        /\ CountVotes(votes, req[j].ip, req[j].category_id) = 1

\* C13: the save of a cast or of a reset writes the table the handler
\* loaded, with the new vote appended or the matching votes filtered out,
\* whatever the votes table holds when the save is made: what other
\* processes saved since the load is overwritten, not merged.
C13_LastSaveWins ==
    [][ \A i \in Instances :
          Saves(i) =>
              /\ req'[i].code = 200
              /\ votes' = IF req[i].op = "cast"
                          THEN Append(req[i].snapshot, req[i].vote)
                          ELSE Remaining(req[i].snapshot, req[i].ip,
                                         req[i].category_id) ]_vars

\* the save of an accepted cast has dropped a persisted vote of the table
\* it overwrote and has put back the vote of another identity that the
\* other process's last request, a successful reset, had removed
C13_Witness ==
    \E i, j \in Instances :
        /\ req[i].pc = "idle" /\ req[i].op = "cast" /\ req[i].code = 200
        /\ req[i].lost /\ req[i].revived
        /\ req[j].pc = "idle" /\ req[j].op = "reset" /\ req[j].detail = "success"
        /\ req[j].ip # req[i].ip
        /\ CountVotes(votes, req[j].ip, req[j].category_id) > 0

====
